---- MODULE Spec2Model ----
(***************************************************************************)
(* A model of the loader layer of astrodask (src/src/astrodask/io.py):     *)
(*   - the chunk-set construction of ChunkedHDF5Loader.load (lines 93-104) *)
(*   - the cache decision, merge and open of ChunkedHDF5Loader.load        *)
(*   - the dispatch of BaseLoader.load over HDF5Loader / ZarrLoader /      *)
(*     ChunkedHDF5Loader                                                    *)
(*   - the binder load_datadict_old                                        *)
(* Python strings are sequences of one-character strings, so that split,   *)
(* startswith, strip, replace and int() are computed as Python computes    *)
(* them.                                                                    *)
(***************************************************************************)
EXTENDS Integers, Sequences, FiniteSets, TLC

VARIABLES
    path,       \* Loader.path: the source path handed to the loader
    node,       \* the filesystem at path: [isdir, zgroup] (os.path.isdir(path),
                \* os.path.isfile(path/.zgroup))
    listing,    \* os.listdir(path): sequence of [name, isfile], in listing order
    cachedir,   \* per process: get_config()["cachedir"], a cache directory, or
                \* NoCachedir when the configuration has no such key
    dsdir,      \* per cache directory: os.path.exists(<cachedir>/<hash_path(path)>)
    datafile,   \* per cache directory: <cachedir>/<hash_path(path)>/data.hdf5,
                \* "absent", "partial" or "complete"
    pc,         \* per process: where its current load call stands
    call,       \* per process: arguments, locals and results of its current load call
    ncalls,     \* number of load calls started so far
    chunkq,     \* SpecChunk: one evaluation of lines 93-104 (input and outcome)
    bindq       \* SpecBind: one evaluation of load_datadict_old (input and outcome)

vars == <<path, node, listing, cachedir, dsdir, datafile, pc, call, ncalls, chunkq, bindq>>

loaderVars == <<cachedir, dsdir, datafile, pc, call, ncalls>>

sourceVars == <<path, node, listing, chunkq, bindq>>

----------------------------------------------------------------------------
(* Python string primitives                                                *)

\* A string of one "/" and of one ".".
Slash == <<"/">>
Dot == <<".">>

\* A character that a TLA+ string cannot hold is written as its Python
\* escape: "\\x0b" is the vertical tab, "\\u0663" the Arabic-Indic digit
\* three.

\* The decimal digits of int(): the characters with a Unicode decimal value,
\* one row per script, each row in the order 0..9 (Unicode 14.0.0).
DigitRows ==
    << <<"0", "1", "2", "3", "4", "5", "6", "7", "8", "9">>,
       <<"\\u0660", "\\u0661", "\\u0662", "\\u0663", "\\u0664", "\\u0665", "\\u0666", "\\u0667", "\\u0668", "\\u0669">>,
       <<"\\u06f0", "\\u06f1", "\\u06f2", "\\u06f3", "\\u06f4", "\\u06f5", "\\u06f6", "\\u06f7", "\\u06f8", "\\u06f9">>,
       <<"\\u07c0", "\\u07c1", "\\u07c2", "\\u07c3", "\\u07c4", "\\u07c5", "\\u07c6", "\\u07c7", "\\u07c8", "\\u07c9">>,
       <<"\\u0966", "\\u0967", "\\u0968", "\\u0969", "\\u096a", "\\u096b", "\\u096c", "\\u096d", "\\u096e", "\\u096f">>,
       <<"\\u09e6", "\\u09e7", "\\u09e8", "\\u09e9", "\\u09ea", "\\u09eb", "\\u09ec", "\\u09ed", "\\u09ee", "\\u09ef">>,
       <<"\\u0a66", "\\u0a67", "\\u0a68", "\\u0a69", "\\u0a6a", "\\u0a6b", "\\u0a6c", "\\u0a6d", "\\u0a6e", "\\u0a6f">>,
       <<"\\u0ae6", "\\u0ae7", "\\u0ae8", "\\u0ae9", "\\u0aea", "\\u0aeb", "\\u0aec", "\\u0aed", "\\u0aee", "\\u0aef">>,
       <<"\\u0b66", "\\u0b67", "\\u0b68", "\\u0b69", "\\u0b6a", "\\u0b6b", "\\u0b6c", "\\u0b6d", "\\u0b6e", "\\u0b6f">>,
       <<"\\u0be6", "\\u0be7", "\\u0be8", "\\u0be9", "\\u0bea", "\\u0beb", "\\u0bec", "\\u0bed", "\\u0bee", "\\u0bef">>,
       <<"\\u0c66", "\\u0c67", "\\u0c68", "\\u0c69", "\\u0c6a", "\\u0c6b", "\\u0c6c", "\\u0c6d", "\\u0c6e", "\\u0c6f">>,
       <<"\\u0ce6", "\\u0ce7", "\\u0ce8", "\\u0ce9", "\\u0cea", "\\u0ceb", "\\u0cec", "\\u0ced", "\\u0cee", "\\u0cef">>,
       <<"\\u0d66", "\\u0d67", "\\u0d68", "\\u0d69", "\\u0d6a", "\\u0d6b", "\\u0d6c", "\\u0d6d", "\\u0d6e", "\\u0d6f">>,
       <<"\\u0de6", "\\u0de7", "\\u0de8", "\\u0de9", "\\u0dea", "\\u0deb", "\\u0dec", "\\u0ded", "\\u0dee", "\\u0def">>,
       <<"\\u0e50", "\\u0e51", "\\u0e52", "\\u0e53", "\\u0e54", "\\u0e55", "\\u0e56", "\\u0e57", "\\u0e58", "\\u0e59">>,
       <<"\\u0ed0", "\\u0ed1", "\\u0ed2", "\\u0ed3", "\\u0ed4", "\\u0ed5", "\\u0ed6", "\\u0ed7", "\\u0ed8", "\\u0ed9">>,
       <<"\\u0f20", "\\u0f21", "\\u0f22", "\\u0f23", "\\u0f24", "\\u0f25", "\\u0f26", "\\u0f27", "\\u0f28", "\\u0f29">>,
       <<"\\u1040", "\\u1041", "\\u1042", "\\u1043", "\\u1044", "\\u1045", "\\u1046", "\\u1047", "\\u1048", "\\u1049">>,
       <<"\\u1090", "\\u1091", "\\u1092", "\\u1093", "\\u1094", "\\u1095", "\\u1096", "\\u1097", "\\u1098", "\\u1099">>,
       <<"\\u17e0", "\\u17e1", "\\u17e2", "\\u17e3", "\\u17e4", "\\u17e5", "\\u17e6", "\\u17e7", "\\u17e8", "\\u17e9">>,
       <<"\\u1810", "\\u1811", "\\u1812", "\\u1813", "\\u1814", "\\u1815", "\\u1816", "\\u1817", "\\u1818", "\\u1819">>,
       <<"\\u1946", "\\u1947", "\\u1948", "\\u1949", "\\u194a", "\\u194b", "\\u194c", "\\u194d", "\\u194e", "\\u194f">>,
       <<"\\u19d0", "\\u19d1", "\\u19d2", "\\u19d3", "\\u19d4", "\\u19d5", "\\u19d6", "\\u19d7", "\\u19d8", "\\u19d9">>,
       <<"\\u1a80", "\\u1a81", "\\u1a82", "\\u1a83", "\\u1a84", "\\u1a85", "\\u1a86", "\\u1a87", "\\u1a88", "\\u1a89">>,
       <<"\\u1a90", "\\u1a91", "\\u1a92", "\\u1a93", "\\u1a94", "\\u1a95", "\\u1a96", "\\u1a97", "\\u1a98", "\\u1a99">>,
       <<"\\u1b50", "\\u1b51", "\\u1b52", "\\u1b53", "\\u1b54", "\\u1b55", "\\u1b56", "\\u1b57", "\\u1b58", "\\u1b59">>,
       <<"\\u1bb0", "\\u1bb1", "\\u1bb2", "\\u1bb3", "\\u1bb4", "\\u1bb5", "\\u1bb6", "\\u1bb7", "\\u1bb8", "\\u1bb9">>,
       <<"\\u1c40", "\\u1c41", "\\u1c42", "\\u1c43", "\\u1c44", "\\u1c45", "\\u1c46", "\\u1c47", "\\u1c48", "\\u1c49">>,
       <<"\\u1c50", "\\u1c51", "\\u1c52", "\\u1c53", "\\u1c54", "\\u1c55", "\\u1c56", "\\u1c57", "\\u1c58", "\\u1c59">>,
       <<"\\ua620", "\\ua621", "\\ua622", "\\ua623", "\\ua624", "\\ua625", "\\ua626", "\\ua627", "\\ua628", "\\ua629">>,
       <<"\\ua8d0", "\\ua8d1", "\\ua8d2", "\\ua8d3", "\\ua8d4", "\\ua8d5", "\\ua8d6", "\\ua8d7", "\\ua8d8", "\\ua8d9">>,
       <<"\\ua900", "\\ua901", "\\ua902", "\\ua903", "\\ua904", "\\ua905", "\\ua906", "\\ua907", "\\ua908", "\\ua909">>,
       <<"\\ua9d0", "\\ua9d1", "\\ua9d2", "\\ua9d3", "\\ua9d4", "\\ua9d5", "\\ua9d6", "\\ua9d7", "\\ua9d8", "\\ua9d9">>,
       <<"\\ua9f0", "\\ua9f1", "\\ua9f2", "\\ua9f3", "\\ua9f4", "\\ua9f5", "\\ua9f6", "\\ua9f7", "\\ua9f8", "\\ua9f9">>,
       <<"\\uaa50", "\\uaa51", "\\uaa52", "\\uaa53", "\\uaa54", "\\uaa55", "\\uaa56", "\\uaa57", "\\uaa58", "\\uaa59">>,
       <<"\\uabf0", "\\uabf1", "\\uabf2", "\\uabf3", "\\uabf4", "\\uabf5", "\\uabf6", "\\uabf7", "\\uabf8", "\\uabf9">>,
       <<"\\uff10", "\\uff11", "\\uff12", "\\uff13", "\\uff14", "\\uff15", "\\uff16", "\\uff17", "\\uff18", "\\uff19">>,
       <<"\\U000104a0", "\\U000104a1", "\\U000104a2", "\\U000104a3", "\\U000104a4", "\\U000104a5", "\\U000104a6", "\\U000104a7", "\\U000104a8", "\\U000104a9">>,
       <<"\\U00010d30", "\\U00010d31", "\\U00010d32", "\\U00010d33", "\\U00010d34", "\\U00010d35", "\\U00010d36", "\\U00010d37", "\\U00010d38", "\\U00010d39">>,
       <<"\\U00011066", "\\U00011067", "\\U00011068", "\\U00011069", "\\U0001106a", "\\U0001106b", "\\U0001106c", "\\U0001106d", "\\U0001106e", "\\U0001106f">>,
       <<"\\U000110f0", "\\U000110f1", "\\U000110f2", "\\U000110f3", "\\U000110f4", "\\U000110f5", "\\U000110f6", "\\U000110f7", "\\U000110f8", "\\U000110f9">>,
       <<"\\U00011136", "\\U00011137", "\\U00011138", "\\U00011139", "\\U0001113a", "\\U0001113b", "\\U0001113c", "\\U0001113d", "\\U0001113e", "\\U0001113f">>,
       <<"\\U000111d0", "\\U000111d1", "\\U000111d2", "\\U000111d3", "\\U000111d4", "\\U000111d5", "\\U000111d6", "\\U000111d7", "\\U000111d8", "\\U000111d9">>,
       <<"\\U000112f0", "\\U000112f1", "\\U000112f2", "\\U000112f3", "\\U000112f4", "\\U000112f5", "\\U000112f6", "\\U000112f7", "\\U000112f8", "\\U000112f9">>,
       <<"\\U00011450", "\\U00011451", "\\U00011452", "\\U00011453", "\\U00011454", "\\U00011455", "\\U00011456", "\\U00011457", "\\U00011458", "\\U00011459">>,
       <<"\\U000114d0", "\\U000114d1", "\\U000114d2", "\\U000114d3", "\\U000114d4", "\\U000114d5", "\\U000114d6", "\\U000114d7", "\\U000114d8", "\\U000114d9">>,
       <<"\\U00011650", "\\U00011651", "\\U00011652", "\\U00011653", "\\U00011654", "\\U00011655", "\\U00011656", "\\U00011657", "\\U00011658", "\\U00011659">>,
       <<"\\U000116c0", "\\U000116c1", "\\U000116c2", "\\U000116c3", "\\U000116c4", "\\U000116c5", "\\U000116c6", "\\U000116c7", "\\U000116c8", "\\U000116c9">>,
       <<"\\U00011730", "\\U00011731", "\\U00011732", "\\U00011733", "\\U00011734", "\\U00011735", "\\U00011736", "\\U00011737", "\\U00011738", "\\U00011739">>,
       <<"\\U000118e0", "\\U000118e1", "\\U000118e2", "\\U000118e3", "\\U000118e4", "\\U000118e5", "\\U000118e6", "\\U000118e7", "\\U000118e8", "\\U000118e9">>,
       <<"\\U00011950", "\\U00011951", "\\U00011952", "\\U00011953", "\\U00011954", "\\U00011955", "\\U00011956", "\\U00011957", "\\U00011958", "\\U00011959">>,
       <<"\\U00011c50", "\\U00011c51", "\\U00011c52", "\\U00011c53", "\\U00011c54", "\\U00011c55", "\\U00011c56", "\\U00011c57", "\\U00011c58", "\\U00011c59">>,
       <<"\\U00011d50", "\\U00011d51", "\\U00011d52", "\\U00011d53", "\\U00011d54", "\\U00011d55", "\\U00011d56", "\\U00011d57", "\\U00011d58", "\\U00011d59">>,
       <<"\\U00011da0", "\\U00011da1", "\\U00011da2", "\\U00011da3", "\\U00011da4", "\\U00011da5", "\\U00011da6", "\\U00011da7", "\\U00011da8", "\\U00011da9">>,
       <<"\\U00016a60", "\\U00016a61", "\\U00016a62", "\\U00016a63", "\\U00016a64", "\\U00016a65", "\\U00016a66", "\\U00016a67", "\\U00016a68", "\\U00016a69">>,
       <<"\\U00016ac0", "\\U00016ac1", "\\U00016ac2", "\\U00016ac3", "\\U00016ac4", "\\U00016ac5", "\\U00016ac6", "\\U00016ac7", "\\U00016ac8", "\\U00016ac9">>,
       <<"\\U00016b50", "\\U00016b51", "\\U00016b52", "\\U00016b53", "\\U00016b54", "\\U00016b55", "\\U00016b56", "\\U00016b57", "\\U00016b58", "\\U00016b59">>,
       <<"\\U0001d7ce", "\\U0001d7cf", "\\U0001d7d0", "\\U0001d7d1", "\\U0001d7d2", "\\U0001d7d3", "\\U0001d7d4", "\\U0001d7d5", "\\U0001d7d6", "\\U0001d7d7">>,
       <<"\\U0001d7d8", "\\U0001d7d9", "\\U0001d7da", "\\U0001d7db", "\\U0001d7dc", "\\U0001d7dd", "\\U0001d7de", "\\U0001d7df", "\\U0001d7e0", "\\U0001d7e1">>,
       <<"\\U0001d7e2", "\\U0001d7e3", "\\U0001d7e4", "\\U0001d7e5", "\\U0001d7e6", "\\U0001d7e7", "\\U0001d7e8", "\\U0001d7e9", "\\U0001d7ea", "\\U0001d7eb">>,
       <<"\\U0001d7ec", "\\U0001d7ed", "\\U0001d7ee", "\\U0001d7ef", "\\U0001d7f0", "\\U0001d7f1", "\\U0001d7f2", "\\U0001d7f3", "\\U0001d7f4", "\\U0001d7f5">>,
       <<"\\U0001d7f6", "\\U0001d7f7", "\\U0001d7f8", "\\U0001d7f9", "\\U0001d7fa", "\\U0001d7fb", "\\U0001d7fc", "\\U0001d7fd", "\\U0001d7fe", "\\U0001d7ff">>,
       <<"\\U0001e140", "\\U0001e141", "\\U0001e142", "\\U0001e143", "\\U0001e144", "\\U0001e145", "\\U0001e146", "\\U0001e147", "\\U0001e148", "\\U0001e149">>,
       <<"\\U0001e2f0", "\\U0001e2f1", "\\U0001e2f2", "\\U0001e2f3", "\\U0001e2f4", "\\U0001e2f5", "\\U0001e2f6", "\\U0001e2f7", "\\U0001e2f8", "\\U0001e2f9">>,
       <<"\\U0001e950", "\\U0001e951", "\\U0001e952", "\\U0001e953", "\\U0001e954", "\\U0001e955", "\\U0001e956", "\\U0001e957", "\\U0001e958", "\\U0001e959">>,
       <<"\\U0001fbf0", "\\U0001fbf1", "\\U0001fbf2", "\\U0001fbf3", "\\U0001fbf4", "\\U0001fbf5", "\\U0001fbf6", "\\U0001fbf7", "\\U0001fbf8", "\\U0001fbf9">> >>

IsDigit(c) == \E r \in DOMAIN DigitRows : \E i \in 1..10 : DigitRows[r][i] = c

DigitVal(c) ==
    (CHOOSE i \in 1..10 : \E r \in DOMAIN DigitRows : DigitRows[r][i] = c) - 1

RECURSIVE SplitFrom(_, _, _, _, _)
SplitFrom(s, sep, i, cur, acc) ==
    IF i > Len(s) THEN Append(acc, cur)
    ELSE IF s[i] = sep THEN SplitFrom(s, sep, i + 1, <<>>, Append(acc, cur))
    ELSE SplitFrom(s, sep, i + 1, Append(cur, s[i]), acc)

\* str.split(sep) for a one-character separator: "a..b" gives ["a", "", "b"].
Split(s, sep) == SplitFrom(s, sep, 1, <<>>, <<>>)

\* str.startswith(t)
StartsWith(s, t) == Len(t) <= Len(s) /\ SubSeq(s, 1, Len(t)) = t

\* The characters int() skips around the literal: those it takes for
\* whitespace (of the separators "\\x1c" to "\\x1f", for which str.isspace()
\* holds, int() raises ValueError, so they are not among them).
IsSpace(c) ==
    c \in
    {"\t", "\n", "\\x0b", "\f", "\r", " ", "\\x85", "\\xa0", "\\u1680",
      "\\u2000", "\\u2001", "\\u2002", "\\u2003", "\\u2004", "\\u2005",
      "\\u2006", "\\u2007", "\\u2008", "\\u2009", "\\u200a", "\\u2028",
      "\\u2029", "\\u202f", "\\u205f", "\\u3000"}

RECURSIVE LStripSpace(_)
LStripSpace(s) ==
    IF Len(s) > 0 /\ IsSpace(s[1]) THEN LStripSpace(Tail(s)) ELSE s

RECURSIVE RStripSpace(_)
RStripSpace(s) ==
    IF Len(s) > 0 /\ IsSpace(s[Len(s)]) THEN RStripSpace(SubSeq(s, 1, Len(s) - 1)) ELSE s

\* The literal int() parses: s without the surrounding whitespace.
IntLiteral(s) == RStripSpace(LStripSpace(s))

\* The literal without its optional sign.
IntDigits(s) ==
    LET t == IntLiteral(s)
    IN  IF Len(t) > 0 /\ t[1] \in {"+", "-"} THEN Tail(t) ELSE t

RECURSIVE IntFrom(_, _, _)
IntFrom(s, i, acc) ==
    IF i > Len(s) THEN acc
    ELSE IF s[i] = "_" THEN IntFrom(s, i + 1, acc)
    ELSE IntFrom(s, i + 1, acc * 10 + DigitVal(s[i]))

\* int(s), base 10: surrounding whitespace, an optional sign, then decimal
\* digits with single underscores between digits. CanInt(s) is false where
\* int(s) raises ValueError.
CanInt(s) ==
    LET u == IntDigits(s)
    IN  /\ Len(u) > 0
        /\ IsDigit(u[1]) /\ IsDigit(u[Len(u)])
        /\ \A i \in DOMAIN u :
              \/ IsDigit(u[i])
              \/ (u[i] = "_" /\ i > 1 /\ u[i - 1] # "_")

ParseInt(s) ==
    LET t == IntLiteral(s)
        v == IntFrom(IntDigits(s), 1, 0)
    IN  IF Len(t) > 0 /\ t[1] = "-" THEN 0 - v ELSE v

\* os.path.join(a, b) for a relative b.
join(a, b) ==
    IF Len(a) = 0 THEN b
    ELSE IF a[Len(a)] = "/" THEN a \o b
    ELSE a \o Slash \o b

\* The last element of a non-empty sequence: s[-1].
Last(s) == s[Len(s)]

----------------------------------------------------------------------------
(* ChunkedHDF5Loader.load, lines 93-104: the chunk set                     *)

\* np.argsort(nmbrs): the index permutations that sort nmbrs. The default
\* sort kind is not stable, so equal keys may come out in either order.
\* Variant: the files are left in listing order.
ArgsortUnsorted(nmbrs) == {[i \in DOMAIN nmbrs |-> i]}

argsort(nmbrs) ==
    {p \in [DOMAIN nmbrs -> DOMAIN nmbrs] :
        /\ \A i, j \in DOMAIN nmbrs : i # j => p[i] # p[j]
        /\ \A i \in DOMAIN nmbrs :
              i < Len(nmbrs) => nmbrs[p[i]] <= nmbrs[p[i + 1]]}

\* Line 94: os.path.isfile on the joined paths (subdirectories are dropped).
RegularFiles(p, ls) ==
    LET full == [i \in DOMAIN ls |-> [name |-> join(p, ls[i].name), isfile |-> ls[i].isfile]]
        kept == SelectSeq(full, LAMBDA e : e.isfile)
    IN  [i \in DOMAIN kept |-> kept[i].name]

\* Line 95: keep the files whose basename starts with fileprefix.
FilterPrefix(fs, fileprefix) ==
    SelectSeq(fs, LAMBDA f : StartsWith(Last(Split(f, "/")), fileprefix))

\* Line 96: the prefix of a file is the text before the first "." of its
\* joined path.
prfxs(fs) == {Split(fs[i], ".")[1] : i \in DOMAIN fs}

\* Line 102: the second-to-last "."-delimited field of the joined path.
NumberField(f) == LET parts == Split(f, ".") IN parts[Len(parts) - 1]

\* Lines 93-104 as a whole: the set of outcomes for a directory listing.
\* An outcome is [status, files]; status "ok" carries the sequence that is
\* later handed to create_mergedhdf5file.
ChunkSet(p, ls, fileprefix) ==
    LET fs == FilterPrefix(RegularFiles(p, ls), fileprefix)
        \* Line 102 runs over the files in order: the first file whose field
        \* is missing or is no integer ends the comprehension.
        bad == {i \in DOMAIN fs :
                   Len(Split(fs[i], ".")) < 2 \/ ~CanInt(NumberField(fs[i]))}
    IN  IF Cardinality(prfxs(fs)) > 1
        THEN {[status |-> "ValueError:prefix", files |-> <<>>]}
        ELSE IF bad # {}
        THEN LET first == CHOOSE i \in bad : \A j \in bad : i <= j
             IN  IF Len(Split(fs[first], ".")) < 2
                 THEN {[status |-> "IndexError", files |-> <<>>]}
                 ELSE {[status |-> "ValueError:int", files |-> <<>>]}
        ELSE LET nmbrs == [i \in DOMAIN fs |-> ParseInt(NumberField(fs[i]))]
             IN  {[status |-> "ok", files |-> [i \in DOMAIN fs |-> fs[sortidx[i]]]] :
                     sortidx \in argsort(nmbrs)}

----------------------------------------------------------------------------
(* Inputs of the chunk-set specification                                   *)

\* The largest number of directory entries in a listing.
MaxFiles == 3

Hdf5 == <<"h", "d", "f", "5">>

\* <prefix>.<N>.hdf5
ChunkName(prefix, n) == prefix \o Dot \o n \o Dot \o Hdf5

\* Directory entries: chunk files of the prefixes "a", "ab" and "b" with the
\* chunk numbers 1, 2 and 10, a chunk number with a minus sign, a second
\* spelling of chunk number 1, a chunk number 3 written as a no-break space
\* and an Arabic-Indic digit, a file without any "." and one whose number
\* field is no integer, and a subdirectory.
EntryPool ==
    { [name |-> ChunkName(<<"a">>, <<"2">>), isfile |-> TRUE],
      [name |-> ChunkName(<<"a">>, <<"1", "0">>), isfile |-> TRUE],
      [name |-> ChunkName(<<"a">>, <<"1">>), isfile |-> TRUE],
      [name |-> ChunkName(<<"a">>, <<"-", "1">>), isfile |-> TRUE],
      [name |-> ChunkName(<<"a">>, <<"+", "1">>), isfile |-> TRUE],
      [name |-> ChunkName(<<"a">>, <<"\\xa0", "\\u0663">>), isfile |-> TRUE],
      [name |-> ChunkName(<<"a", "b">>, <<"1">>), isfile |-> TRUE],
      [name |-> ChunkName(<<"b">>, <<"2">>), isfile |-> TRUE],
      [name |-> <<"x">>, isfile |-> TRUE],
      [name |-> ChunkName(<<"x">>, <<"b">>), isfile |-> TRUE],
      [name |-> <<"s", "u", "b">>, isfile |-> FALSE] }

\* Every listing order of every set of at most MaxFiles distinct entries.
Listings ==
    UNION { {s \in [1..n -> EntryPool] : \A i, j \in 1..n : i # j => s[i] # s[j]} :
              n \in 0..MaxFiles }

\* Source directories: one without and one with a "." in its path.
DirPaths == { <<"/", "d">>, <<"/", "r", ".", "1", "/", "d">> }

FilePrefixes == { <<>>, <<"a">>, <<"b">>, <<"a", "b">>, <<"x">> }

Idle == [status |-> "none", files |-> <<>>]

InitChunk ==
    /\ path \in DirPaths
    /\ node = [isdir |-> TRUE, zgroup |-> FALSE]
    /\ listing \in Listings
    /\ chunkq \in {[fileprefix |-> fp, out |-> Idle] : fp \in FilePrefixes}
    /\ bindq = <<>>
    /\ cachedir = <<>> /\ dsdir = FALSE /\ datafile = "absent"
    /\ pc = <<>> /\ call = <<>> /\ ncalls = 0

\* One evaluation of lines 93-104 on the drawn directory and fileprefix.
BuildChunkSet ==
    /\ chunkq.out = Idle
    /\ \E r \in ChunkSet(path, listing, chunkq.fileprefix) :
          chunkq' = [chunkq EXCEPT !.out = r]
    /\ UNCHANGED <<path, node, listing, bindq>>
    /\ UNCHANGED loaderVars

NextChunk == BuildChunkSet

SpecChunk == InitChunk /\ [][NextChunk]_vars

----------------------------------------------------------------------------
(* Claims about the chunk set (checked under SpecChunk)                    *)

\* What the claims call the prefix and the chunk number N of a file named
\* <prefix>.N.hdf5: the first and the second-to-last field of its name.
NamePrefix(e) == Split(e.name, ".")[1]

NameNumber(e) == LET parts == Split(e.name, ".") IN ParseInt(parts[Len(parts) - 1])

\* The regular files of the listing, and those whose name starts with fileprefix.
ListedFiles == {listing[i] : i \in {j \in DOMAIN listing : listing[j].isfile}}

SelectedFiles == {e \in ListedFiles : StartsWith(e.name, chunkq.fileprefix)}

\* The entry of the listing that a joined path comes from.
EntryOf(f) == CHOOSE e \in ListedFiles : join(path, e.name) = f

HandedFiles == {chunkq.out.files[i] : i \in DOMAIN chunkq.out.files}

\* C2 (the claim as stated): a directory holding files of two distinct
\* prefixes fails with the prefix error when no fileprefix is given, and with
\* fileprefix equal to one of the prefixes the load goes on with exactly the
\* files of that prefix.
C2_AmbiguousPrefixRejected ==
    (chunkq.out # Idle /\ Cardinality({NamePrefix(e) : e \in ListedFiles}) >= 2) =>
        /\ chunkq.fileprefix = <<>> => chunkq.out.status = "ValueError:prefix"
        /\ chunkq.fileprefix \in {NamePrefix(e) : e \in ListedFiles} =>
              /\ chunkq.out.status = "ok"
              /\ HandedFiles =
                    {join(path, e.name) : e \in {x \in ListedFiles : NamePrefix(x) = chunkq.fileprefix}}

\* A file named <prefix>.N.hdf5 with an integer N.
ChunkNamed(e) ==
    LET parts == Split(e.name, ".")
    IN  Len(parts) = 3 /\ parts[3] = Hdf5 /\ CanInt(parts[2])

\* C3: when the selected files are chunk files <prefix>.N.hdf5 of one prefix
\* with pairwise distinct chunk numbers N, the sequence handed to the Merger
\* holds exactly those files, in strictly increasing N, whatever the order of
\* the listing.
C3_NumericOrder ==
    (/\ chunkq.out # Idle
     /\ \A e \in SelectedFiles : ChunkNamed(e)
     /\ Cardinality({NamePrefix(e) : e \in SelectedFiles}) <= 1
     /\ \A e1, e2 \in SelectedFiles : e1 # e2 => NameNumber(e1) # NameNumber(e2)) =>
        /\ chunkq.out.status = "ok"
        /\ HandedFiles = {join(path, e.name) : e \in SelectedFiles}
        /\ Len(chunkq.out.files) = Cardinality(SelectedFiles)
        /\ \A i \in DOMAIN chunkq.out.files :
              i < Len(chunkq.out.files) =>
                 NameNumber(EntryOf(chunkq.out.files[i])) <
                    NameNumber(EntryOf(chunkq.out.files[i + 1]))

\* C3 witness: the listing returns a.10.hdf5, a.2.hdf5 and a.-1.hdf5 in this
\* order and the Merger is handed a.-1.hdf5, a.2.hdf5, a.10.hdf5 (the lexical
\* order of the names is a.-1, a.10, a.2).
C3_Witness ==
    /\ chunkq.out.status = "ok"
    /\ Len(listing) = 3
    /\ listing[1].name = ChunkName(<<"a">>, <<"1", "0">>)
    /\ listing[2].name = ChunkName(<<"a">>, <<"2">>)
    /\ listing[3].name = ChunkName(<<"a">>, <<"-", "1">>)
    /\ chunkq.out.files = <<join(path, ChunkName(<<"a">>, <<"-", "1">>)),
                            join(path, ChunkName(<<"a">>, <<"2">>)),
                            join(path, ChunkName(<<"a">>, <<"1", "0">>))>>

----------------------------------------------------------------------------
(* The loaders: BaseLoader.load and the three strategies                   *)

\* The operating-system processes that call load on the same source path.
Procs == {"p1", "p2"}

\* The largest number of load calls started in one behaviour.
MaxCalls == 2

NoFile == [where |-> "none", id |-> 0, content |-> "none"]

NoLocation == [where |-> "none", id |-> 0]

\* The cache directories a configuration may name, and the configuration
\* without a cachedir key.
CacheDirs == {1, 2}

NoCachedir == 0

\* <cachedir>/<hash_path(path)>/data.hdf5 (line 110) under the cache directory d
CacheLocation(d) == [where |-> "cache", id |-> d]

InCache(loc) == loc.where = "cache"

\* tempfile.NamedTemporaryFile(...).name: a fresh name for every call
TempLocation(n) == [where |-> "temp", id |-> n]

SourceLocation == [where |-> "source", id |-> 0]

\* The locals and results of a load call before it has done anything, on a
\* BaseLoader object whose file attribute is base: line 234 is the only
\* assignment to BaseLoader.file, so a call on a loader that was used before
\* starts with, and unless it returns keeps, the handle of the earlier call.
\*   overwrite, fileprefix : the arguments
\*   loader    : the strategy class BaseLoader.load instantiated
\*   files     : the chunk set (line 104)
\*   config    : the cachedir of the _config of line 106 (or NoCachedir)
\*   dest      : the first argument of create_mergedhdf5file
\*   temp      : the content of this call's temporary file
\*   invoked   : create_mergedhdf5file was called in this call
\*   warned    : logging.warning of line 121 was emitted in this call
\*   location  : the strategy loader's self.location
\*   file      : the strategy loader's self.file
\*   basefile  : BaseLoader.file of the loader object the call is made on
\*   ret       : "none" while running, "pair" for a returned (data, metadata),
\*               otherwise the exception that ended the call
NewCall(ow, fpx, ldr, base) ==
    [overwrite |-> ow, fileprefix |-> fpx, loader |-> ldr, files |-> <<>>,
     config |-> NoCachedir, dest |-> NoLocation, temp |-> "absent", invoked |-> FALSE, warned |-> FALSE,
     location |-> NoLocation, file |-> NoFile, basefile |-> base, ret |-> "none"]

\* BaseLoader.load, lines 223-232: the path classifier.
Classify(n) ==
    IF n.isdir
    THEN IF n.zgroup THEN "ZarrLoader" ELSE "ChunkedHDF5Loader"
    ELSE "HDF5Loader"

\* Line 113: the merge is needed when data.hdf5 is no file or overwrite is set.
\* Variant: overwrite is not looked at.
NeedsMergeIgnoringOverwrite(isfile, overwrite) == ~isfile

\* Variant: a process stays out of the Merger while another one is inside.
NeedsMergeUnlessBusy(isfile, overwrite) ==
    (~isfile \/ overwrite) /\ \A q \in Procs : pc[q] \notin {"merging", "writing"}

NeedsMerge(isfile, overwrite) == ~isfile \/ overwrite

\* Line 107: the cache branch is taken when the configuration that line 106
\* got has a cachedir.
UsesCache(config) == config # NoCachedir

\* A call may start when the process runs no call.
Free(p) == pc[p] \in {"idle", "done", "failed"}

\* The content of the Merger's destination of p's call.
DestContent(p) ==
    IF InCache(call[p].dest) THEN datafile[call[p].dest.id] ELSE call[p].temp

\* The processes that are writing the same destination as p right now.
OtherWriters(p) ==
    {q \in Procs \ {p} : pc[q] = "writing" /\ call[q].dest = call[p].dest}

\* BaseLoader(path), lines 217-220, between two calls of a process: the
\* process drops the loader it used and goes on with a new one, whose file
\* is None.
NewLoader(p) ==
    /\ pc[p] \in {"done", "failed"}
    /\ pc' = [pc EXCEPT ![p] = "idle"]
    /\ call' = [call EXCEPT ![p] = NewCall(FALSE, <<>>, "none", NoFile)]
    /\ UNCHANGED <<cachedir, dsdir, datafile, ncalls>>
    /\ UNCHANGED sourceVars

\* BaseLoader.load on a single file: HDF5Loader.load (lines 42-54), then
\* lines 233-235.
LoadHDF5(p, ow, fpx) ==
    /\ Free(p) /\ ncalls < MaxCalls
    /\ Classify(node) = "HDF5Loader"
    /\ ncalls' = ncalls + 1
    /\ pc' = [pc EXCEPT ![p] = "done"]
    /\ LET f == [where |-> "source", id |-> 0, content |-> "complete"]
       IN  call' = [call EXCEPT ![p] =
                [NewCall(ow, fpx, "HDF5Loader", call[p].basefile) EXCEPT
                    !.location = SourceLocation, !.file = f, !.basefile = f, !.ret = "pair"]]
    /\ UNCHANGED <<cachedir, dsdir, datafile>>
    /\ UNCHANGED sourceVars

\* BaseLoader.load on a Zarr store: ZarrLoader.load (lines 71-75) sets
\* self.file and then calls self.load_from_tree, which no class defines;
\* the AttributeError leaves BaseLoader.load at line 233.
LoadZarr(p, ow, fpx) ==
    /\ Free(p) /\ ncalls < MaxCalls
    /\ Classify(node) = "ZarrLoader"
    /\ ncalls' = ncalls + 1
    /\ pc' = [pc EXCEPT ![p] = "failed"]
    /\ call' = [call EXCEPT ![p] =
            [NewCall(ow, fpx, "ZarrLoader", call[p].basefile) EXCEPT
                !.location = SourceLocation,
                !.file = [where |-> "source", id |-> 0, content |-> "complete"],
                !.ret = "AttributeError"]]
    /\ UNCHANGED <<cachedir, dsdir, datafile>>
    /\ UNCHANGED sourceVars

\* config.get_config(reload=True) between two calls of a process: the
\* configuration is read again from the file and the environment, and from
\* now on it names another cache directory, or none, or one where it named
\* none. What lies under the directory named before stays on disk.
ReloadConfig(p, dir) ==
    /\ Free(p)
    /\ dir # cachedir[p]
    /\ cachedir' = [cachedir EXCEPT ![p] = dir]
    /\ UNCHANGED <<dsdir, datafile, pc, call, ncalls>>
    /\ UNCHANGED sourceVars

\* ChunkedHDF5Loader.load, lines 93-111 and 116-120: the chunk set, then the
\* configuration branch on what get_config() returns at line 106. With a
\* cachedir the call goes on to create the dataset directory (line 112) or to
\* the file check (line 113); without one it allocates its temporary file
\* and enters create_mergedhdf5file.
ChunkedBegin(p, ow, fpx) ==
    /\ Free(p) /\ ncalls < MaxCalls
    /\ Classify(node) = "ChunkedHDF5Loader"
    /\ ncalls' = ncalls + 1
    /\ \E r \in ChunkSet(path, listing, fpx) :
         LET failing == [NewCall(ow, fpx, "ChunkedHDF5Loader", call[p].basefile) EXCEPT !.ret = r.status]
             c == [NewCall(ow, fpx, "ChunkedHDF5Loader", call[p].basefile) EXCEPT
                      !.files = r.files, !.config = cachedir[p]]
         IN  IF r.status # "ok"
             THEN /\ pc' = [pc EXCEPT ![p] = "failed"]
                  /\ call' = [call EXCEPT ![p] = failing]
             ELSE IF UsesCache(c.config)
             THEN /\ pc' = [pc EXCEPT ![p] = IF dsdir[c.config] THEN "check" ELSE "mkdir"]
                  /\ call' = [call EXCEPT ![p] = [c EXCEPT !.dest = CacheLocation(c.config)]]
             ELSE /\ pc' = [pc EXCEPT ![p] = "merging"]
                  /\ call' = [call EXCEPT ![p] =
                         [c EXCEPT !.dest = TempLocation(ncalls'),
                                   !.location = TempLocation(ncalls'),
                                   !.temp = "partial", !.invoked = TRUE]]
    /\ UNCHANGED <<cachedir, dsdir, datafile>>
    /\ UNCHANGED sourceVars

\* Line 112: os.mkdir(dataset_cachedir); FileExistsError when another process
\* created it since line 111.
Mkdir(p) ==
    /\ pc[p] = "mkdir"
    /\ LET d == call[p].dest.id
       IN  IF dsdir[d]
           THEN /\ pc' = [pc EXCEPT ![p] = "failed"]
                /\ call' = [call EXCEPT ![p].ret = "FileExistsError"]
                /\ UNCHANGED dsdir
           ELSE /\ dsdir' = [dsdir EXCEPT ![d] = TRUE]
                /\ pc' = [pc EXCEPT ![p] = "check"]
                /\ UNCHANGED call
    /\ UNCHANGED <<cachedir, datafile, ncalls>>
    /\ UNCHANGED sourceVars

\* Lines 113-115: the existence check. Either create_mergedhdf5file is
\* entered, or the call goes straight to line 115.
Check(p) ==
    /\ pc[p] = "check"
    /\ IF NeedsMerge(datafile[call[p].dest.id] # "absent", call[p].overwrite)
       THEN /\ pc' = [pc EXCEPT ![p] = "merging"]
            /\ call' = [call EXCEPT ![p].invoked = TRUE]
       ELSE /\ pc' = [pc EXCEPT ![p] = "merged"]
            /\ call' = [call EXCEPT ![p].location = call[p].dest]
    /\ UNCHANGED <<cachedir, dsdir, datafile, ncalls>>
    /\ UNCHANGED sourceVars

\* create_mergedhdf5file creates (or truncates) its destination.
MergeCreate(p) ==
    /\ pc[p] = "merging"
    /\ InCache(call[p].dest) => dsdir[call[p].dest.id]
    /\ pc' = [pc EXCEPT ![p] = "writing"]
    /\ IF InCache(call[p].dest)
       THEN datafile' = [datafile EXCEPT ![call[p].dest.id] = "partial"] /\ UNCHANGED call
       ELSE call' = [call EXCEPT ![p].temp = "partial"] /\ UNCHANGED datafile
    /\ UNCHANGED <<cachedir, dsdir, ncalls>>
    /\ UNCHANGED sourceVars

\* The loader after create_mergedhdf5file has returned: line 115 in the
\* cache branch, lines 121-123 (the warning) in the temporary-file branch.
AfterMerge(c) ==
    IF InCache(c.dest)
    THEN [c EXCEPT !.location = c.dest]
    ELSE [c EXCEPT !.warned = TRUE]

\* create_mergedhdf5file returns. A destination that another process is
\* writing at the same time ends either complete or not.
MergeDone(p) ==
    /\ pc[p] = "writing"
    /\ pc' = [pc EXCEPT ![p] = "merged"]
    /\ \E result \in (IF OtherWriters(p) = {} THEN {"complete"} ELSE {"complete", "partial"}) :
         IF InCache(call[p].dest)
         THEN /\ datafile' = [datafile EXCEPT ![call[p].dest.id] = result]
              /\ call' = [call EXCEPT ![p] = AfterMerge(call[p])]
         ELSE /\ call' = [call EXCEPT ![p] = [AfterMerge(call[p]) EXCEPT !.temp = result]]
              /\ UNCHANGED datafile
    /\ UNCHANGED <<cachedir, dsdir, ncalls>>
    /\ UNCHANGED sourceVars

\* The cache entry after create_mergedhdf5file has raised inside load: lines
\* 113-114 hold no try/except, so the destination stays as the Merger left it.
\* Variant: a failed merge removes its destination.
FailureRemovesFile(d) == "absent"

FailureLeaves(d) == d

\* The temporary file once the call is over. The NamedTemporaryFile is an
\* attribute of the strategy loader, a local of BaseLoader.load, and is deleted
\* with it: at the return, and after an exception whenever the traceback that
\* still refers to the loader is released.
Returned(c) == [c EXCEPT !.temp = "absent"]

Raised(c, exc) == {[c EXCEPT !.ret = exc, !.temp = t] : t \in {c.temp, "absent"}}

\* create_mergedhdf5file raises, before or after it created its destination.
MergeFail(p) ==
    /\ pc[p] \in {"merging", "writing"}
    /\ pc' = [pc EXCEPT ![p] = "failed"]
    /\ \E c \in Raised(call[p], "OSError") : call' = [call EXCEPT ![p] = c]
    /\ datafile' = IF InCache(call[p].dest)
                   THEN [datafile EXCEPT ![call[p].dest.id] = FailureLeaves(@)]
                   ELSE datafile
    /\ UNCHANGED <<cachedir, dsdir, ncalls>>
    /\ UNCHANGED sourceVars

\* Line 125: self.file = h5py.File(self.location, "r"). A missing file
\* raises; an incomplete one may raise or be opened as it is.
OpenFile(p) ==
    /\ pc[p] = "merged"
    /\ LET content == DestContent(p)
           f == [where |-> call[p].dest.where, id |-> call[p].dest.id, content |-> content]
       IN  \/ /\ content # "absent"
              /\ pc' = [pc EXCEPT ![p] = "opened"]
              /\ call' = [call EXCEPT ![p].file = f]
           \/ /\ content # "complete"
              /\ pc' = [pc EXCEPT ![p] = "failed"]
              /\ \E c \in Raised(call[p], "OSError") : call' = [call EXCEPT ![p] = c]
    /\ UNCHANGED <<cachedir, dsdir, datafile, ncalls>>
    /\ UNCHANGED sourceVars

\* Lines 126-133, then BaseLoader.load lines 233-235: load_datadict_old opens
\* the path of self.location once more for walk_hdf5file (line 148) and binds
\* what it finds there now; self.file stays set when this raises.
BindFile(p) ==
    /\ pc[p] = "opened"
    /\ LET content == DestContent(p)
       IN  \/ /\ content # "absent"
              /\ pc' = [pc EXCEPT ![p] = "done"]
              /\ call' = [call EXCEPT ![p] =
                     Returned([call[p] EXCEPT !.basefile = call[p].file, !.ret = "pair"])]
           \/ /\ content # "complete"
              /\ pc' = [pc EXCEPT ![p] = "failed"]
              /\ \E c \in Raised(call[p], "OSError") : call' = [call EXCEPT ![p] = c]
    /\ UNCHANGED <<cachedir, dsdir, datafile, ncalls>>
    /\ UNCHANGED sourceVars

\* An operator removes the cache entry of the source by hand, while no
\* process is writing into it.
RemoveCacheEntry(d) ==
    /\ dsdir[d]
    /\ \A p \in Procs : ~(pc[p] = "writing" /\ call[p].dest = CacheLocation(d))
    /\ dsdir' = [dsdir EXCEPT ![d] = FALSE]
    /\ datafile' = [datafile EXCEPT ![d] = "absent"]
    /\ UNCHANGED <<cachedir, pc, call, ncalls>>
    /\ UNCHANGED sourceVars

\* Sources of the loader specification: a single file, a Zarr store, and a
\* chunked directory whose listing holds two prefixes and returns a.10.hdf5
\* before a.2.hdf5 (a call without fileprefix fails, one with "a" goes on).
SourceFile == [isdir |-> FALSE, zgroup |-> FALSE]

SourceZarr == [isdir |-> TRUE, zgroup |-> TRUE]

SourceChunked == [isdir |-> TRUE, zgroup |-> FALSE]

TwoPrefixListing ==
    << [name |-> ChunkName(<<"b">>, <<"2">>), isfile |-> TRUE],
       [name |-> ChunkName(<<"a">>, <<"1", "0">>), isfile |-> TRUE],
       [name |-> ChunkName(<<"a">>, <<"2">>), isfile |-> TRUE] >>

CallPrefixes == { <<>>, <<"a">> }

Init ==
    /\ path = <<"/", "d">>
    /\ node \in {SourceFile, SourceZarr, SourceChunked}
    /\ listing \in (IF node = SourceChunked THEN {TwoPrefixListing} ELSE {<<>>})
    /\ cachedir \in [Procs -> {NoCachedir} \cup CacheDirs]
    /\ dsdir = [d \in CacheDirs |-> FALSE]
    /\ datafile = [d \in CacheDirs |-> "absent"]
    /\ pc = [p \in Procs |-> "idle"]
    /\ call = [p \in Procs |-> NewCall(FALSE, <<>>, "none", NoFile)]
    /\ ncalls = 0
    /\ chunkq = <<>>
    /\ bindq = <<>>

Next ==
    \/ \E p \in Procs, ow \in BOOLEAN, fpx \in CallPrefixes :
          \/ LoadHDF5(p, ow, fpx)
          \/ LoadZarr(p, ow, fpx)
          \/ ChunkedBegin(p, ow, fpx)
    \/ \E p \in Procs :
          \/ NewLoader(p)
          \/ Mkdir(p)
          \/ Check(p)
          \/ MergeCreate(p)
          \/ MergeDone(p)
          \/ MergeFail(p)
          \/ OpenFile(p)
          \/ BindFile(p)
    \/ \E p \in Procs, dir \in {NoCachedir} \cup CacheDirs : ReloadConfig(p, dir)
    \/ \E d \in CacheDirs : RemoveCacheEntry(d)

Spec == Init /\ [][Next]_vars

----------------------------------------------------------------------------
(* Claims about the loaders (checked under Spec)                           *)

\* The step of p that leaves the existence check of line 113.
Checks(p) == pc[p] = "check" /\ pc'[p] # "check"

\* data.hdf5 under the cache directory of p's call.
CallFile(p) == datafile[call[p].dest.id]

\* C1: a call that found a cachedir in its configuration enters
\* create_mergedhdf5file exactly when, at its existence check, data.hdf5 under
\* that cachedir is no file or overwrite is set, and nowhere else; a call that
\* finds the file and has overwrite=False goes on to open the cached file and
\* leaves it as it is.
C1_MergeIffMissingOrOverwrite ==
    [][\A p \in Procs :
          /\ Checks(p) =>
                /\ call[p].dest = CacheLocation(call[p].config)
                /\ (pc'[p] = "merging" /\ call'[p].invoked)
                      <=> (CallFile(p) = "absent" \/ call[p].overwrite)
                /\ ~(CallFile(p) = "absent" \/ call[p].overwrite) =>
                      /\ pc'[p] = "merged"
                      /\ ~call'[p].invoked
                      /\ call'[p].location = CacheLocation(call[p].config)
                      /\ datafile' = datafile
          /\ (UsesCache(call'[p].config) /\ call'[p].invoked /\ ~call[p].invoked) =>
                Checks(p)]_vars

\* C1 witness: a call with overwrite=False has returned from the cached,
\* complete file without entering the Merger (an earlier call merged it).
C1_Witness ==
    \E p \in Procs :
        /\ pc[p] = "done" /\ UsesCache(call[p].config)
        /\ ~call[p].overwrite /\ ~call[p].invoked
        /\ call[p].ret = "pair"
        /\ call[p].file =
              [where |-> "cache", id |-> call[p].config, content |-> "complete"]

\* The exceptions the error taxonomy allows a load to end with (IOError is
\* OSError in Python 3).
DocumentedErrors == {"ValueError:prefix", "OSError", "FileExistsError"}

\* C4 (the claim as stated): whichever strategy the classifier picks, a call
\* that does not end with a documented error ends in Loaded: it returned a
\* (data, metadata) pair and BaseLoader.file is the strategy's open handle.
C4_EveryStrategyLoads ==
    \A p \in Procs :
        (pc[p] \in {"done", "failed"} /\ call[p].ret \notin DocumentedErrors) =>
            /\ call[p].loader = Classify(node)
            /\ call[p].ret = "pair"
            /\ call[p].file # NoFile
            /\ call[p].basefile = call[p].file

\* A chunked call of p that got past the chunk set and found no cachedir in
\* the configuration of line 106.
Uncached(p) ==
    /\ call[p].loader = "ChunkedHDF5Loader"
    /\ pc[p] # "idle"
    /\ call[p].ret \notin {"ValueError:prefix", "IndexError", "ValueError:int"}
    /\ ~UsesCache(call[p].config)

\* A step of p's call.
Steps(p) == pc'[p] # pc[p] \/ call'[p] # call[p]

\* C8 (the claim as stated): every call that finds no cachedir has, once it
\* is over, allocated a temporary file, invoked the Merger on it and emitted
\* the warning, and no step of such a call changes anything under the cache
\* directory.
C8_AlwaysWarns ==
    [][\A p \in Procs :
          (Steps(p) /\ Uncached(p)') =>
              /\ pc'[p] \in {"done", "failed"} =>
                    /\ call'[p].dest.where = "temp"
                    /\ call'[p].invoked
                    /\ call'[p].warned
              /\ dsdir' = dsdir /\ datafile' = datafile]_vars

\* p is inside create_mergedhdf5file with data.hdf5 under d as destination.
InMerger(p, d) == pc[p] \in {"merging", "writing"} /\ call[p].dest = CacheLocation(d)

\* C9: nothing excludes a second writer: a process whose existence check finds
\* no data.hdf5 enters the Merger also while another process is inside the
\* Merger for the same file.
C9_NoMutualExclusion ==
    [][\A p \in Procs :
          (/\ Checks(p) /\ CallFile(p) = "absent"
           /\ \E q \in Procs \ {p} : InMerger(q, call[p].dest.id)) =>
              (pc'[p] = "merging" /\ call'[p].dest = call[p].dest)]_vars

\* C9 witness: both processes passed the check and are writing the same
\* data.hdf5 at the same time.
C9_Witness ==
    \E d \in CacheDirs :
        \A p \in Procs : pc[p] = "writing" /\ call[p].dest = CacheLocation(d)

\* C10: a failing Merger leaves the cache entry as it is; while data.hdf5 is
\* partial, a call on that entry with overwrite=False skips the Merger and
\* takes the partial file as its location, and what it opens is that partial
\* file; a partial file only goes away by removal of the cache entry or by a
\* Merger run that completes.
C10_PartialFileStays ==
    [][/\ \A p \in Procs :
             /\ (pc[p] \in {"merging", "writing"} /\ pc'[p] = "failed") =>
                   (datafile' = datafile /\ dsdir' = dsdir)
             /\ (Checks(p) /\ CallFile(p) = "partial" /\ ~call[p].overwrite) =>
                   /\ pc'[p] = "merged" /\ ~call'[p].invoked
                   /\ call'[p].location = call[p].dest
                   /\ datafile' = datafile
             /\ (pc[p] = "merged" /\ pc'[p] = "opened" /\ InCache(call[p].dest)) =>
                   call'[p].file =
                      [where |-> "cache", id |-> call[p].dest.id, content |-> CallFile(p)]
       /\ \A d \in CacheDirs :
             (datafile[d] = "partial" /\ datafile'[d] # "partial") =>
                \/ (datafile'[d] = "absent" /\ ~dsdir'[d])
                \/ \E q \in Procs :
                      /\ pc[q] = "writing" /\ pc'[q] = "merged"
                      /\ call[q].invoked /\ call[q].dest = CacheLocation(d)]_vars

\* C10 witness: the Merger of p failed after creating data.hdf5, and a later
\* call of q on the same cache entry with overwrite=False returned from the
\* partial file without entering the Merger.
C10_Witness ==
    \E p, q \in Procs, d \in CacheDirs :
        /\ p # q
        /\ pc[p] = "failed" /\ call[p].invoked /\ call[p].dest = CacheLocation(d)
        /\ datafile[d] = "partial"
        /\ pc[q] = "done" /\ ~call[q].overwrite /\ ~call[q].invoked
        /\ call[q].file = [where |-> "cache", id |-> d, content |-> "partial"]

----------------------------------------------------------------------------
(* The binder: load_datadict_old (lines 136-214)                           *)

\* str.replace(old, new) for one-character strings.
Replace(s, old, new) == [i \in DOMAIN s |-> IF s[i] = old THEN new ELSE s[i]]

RECURSIVE LStrip(_, _)
LStrip(s, ch) == IF Len(s) > 0 /\ s[1] = ch THEN LStrip(Tail(s), ch) ELSE s

RECURSIVE RStrip(_, _)
RStrip(s, ch) ==
    IF Len(s) > 0 /\ s[Len(s)] = ch THEN RStrip(SubSeq(s, 1, Len(s) - 1), ch) ELSE s

\* str.strip(ch): ch removed from both ends.
Strip(s, ch) == RStrip(LStrip(s, ch), ch)

\* Variant: the path is looked up as it is.
StripNothing(s, ch) == s

\* dict.get(key, default) on a sequence of [key, value] items.
Get(items, key, default) ==
    IF \E i \in DOMAIN items : items[i].key = key
    THEN items[CHOOSE i \in DOMAIN items : items[i].key = key].value
    ELSE default

\* "Dataset"
DatasetWord == <<"D", "a", "t", "a", "s", "e", "t">>

\* Variant: the registry is asked for the unstripped path.
NameUnstripped(token, dpath, reg) ==
    LET name == DatasetWord \o token \o Replace(dpath, "/", "_")
    IN  IF reg.present THEN Get(reg.attrs, StripNothing(dpath, "/"), name) ELSE name

\* Lines 178-180: the name of the lazy array of the dataset at dpath.
\* reg.present is ("__dask_tokenize__" in file), reg.attrs its attributes.
DatasetName(token, dpath, reg) ==
    LET name == DatasetWord \o token \o Replace(dpath, "/", "_")
    IN  IF reg.present THEN Get(reg.attrs, Strip(dpath, "/"), name) ELSE name

\* Lines 155-157: the second "/"-field of every dataset path.
groups_with_datasets(tree) ==
    {Split(tree.datasets[i].path, "/")[2] : i \in DOMAIN tree.datasets}

NoGroupsLoad == [given |-> FALSE, names |-> <<>>]

\* Lines 161-164: whether a group of the tree becomes a key.
GroupToLoad(group, groups_load, tree) ==
    IF groups_load.given
    THEN \E i \in DOMAIN groups_load.names : StartsWith(group, groups_load.names[i])
    ELSE \E g \in groups_with_datasets(tree) : group = Slash \o g

\* Lines 169-174: whether a dataset of the tree is bound.
DatasetToLoad(dpath, groups_load, tree) ==
    IF groups_load.given
    THEN \E i \in DOMAIN groups_load.names : StartsWith(dpath, groups_load.names[i])
    ELSE \E g \in groups_with_datasets(tree) : StartsWith(dpath, Slash \o g \o Slash)

HasKey(data, key) == \E i \in DOMAIN data : data[i].key = key

KeyIndex(data, key) == CHOOSE i \in DOMAIN data : data[i].key = key

\* Line 166: data[key] = {} (a key that is set again keeps its place).
SetEmpty(data, key) ==
    IF HasKey(data, key)
    THEN [data EXCEPT ![KeyIndex(data, key)].entries = <<>>]
    ELSE Append(data, [key |-> key, entries |-> <<>>])

\* Line 187: data[group][leaf] = ds (a leaf that is set again keeps its place).
SetEntry(entries, e) ==
    IF \E j \in DOMAIN entries : entries[j].leaf = e.leaf
    THEN [entries EXCEPT ![CHOOSE j \in DOMAIN entries : entries[j].leaf = e.leaf] = e]
    ELSE Append(entries, e)

\* Lines 159-166: the loop over tree["groups"].
RECURSIVE GroupsLoop(_, _, _, _)
GroupsLoop(i, data, groups_load, tree) ==
    IF i > Len(tree.groups) THEN data
    ELSE LET group == tree.groups[i]
         IN  IF GroupToLoad(group, groups_load, tree)
             THEN GroupsLoop(i + 1, SetEmpty(data, Split(group, "/")[2]), groups_load, tree)
             ELSE GroupsLoop(i + 1, data, groups_load, tree)

\* Lines 168-187: the loop over tree["datasets"]; data[group] of a group that
\* is no key raises KeyError.
RECURSIVE DatasetsLoop(_, _, _, _, _, _)
DatasetsLoop(i, data, groups_load, tree, token, reg) ==
    IF i > Len(tree.datasets) THEN [status |-> "ok", data |-> data]
    ELSE LET dataset == tree.datasets[i]
         IN  IF ~DatasetToLoad(dataset.path, groups_load, tree)
             THEN DatasetsLoop(i + 1, data, groups_load, tree, token, reg)
             ELSE LET group == Split(dataset.path, "/")[2]
                      ds == [leaf |-> Last(Split(dataset.path, "/")),
                             name |-> DatasetName(token, dataset.path, reg),
                             path |-> dataset.path,
                             shape |-> dataset.shape, chunks |-> dataset.chunks]
                  IN  IF ~HasKey(data, group)
                      THEN [status |-> "KeyError", data |-> <<>>]
                      ELSE DatasetsLoop(i + 1,
                               [data EXCEPT ![KeyIndex(data, group)].entries = SetEntry(@, ds)],
                               groups_load, tree, token, reg)

\* Lines 200-208: the inner loop over the arrays of one group. u is
\* (nparts, chunks) as the loop found them: [set, nparts, chunks].
UidStep(u, v) == [set |-> TRUE, nparts |-> v.shape[1], chunks |-> <<v.chunks[1]>>]

RECURSIVE UidLoop(_, _, _)
UidLoop(k, entries, u) ==
    IF k > Len(entries) THEN u
    ELSE LET v == entries[k]
         IN  IF Len(v.chunks) = 1
             THEN [set |-> TRUE, nparts |-> v.shape[1], chunks |-> v.chunks]
             ELSE UidLoop(k + 1, entries, UidStep(u, v))

\* Lines 199-210: the loop over the groups; nparts and chunks are locals of
\* the function, so a group without arrays reuses those of the group before
\* it, and raises UnboundLocalError when there is none.
RECURSIVE GroupsUid(_, _, _, _)
GroupsUid(i, data, u, acc) ==
    IF i > Len(data) THEN [status |-> "ok", data |-> acc]
    ELSE LET w == UidLoop(1, data[i].entries, u)
         IN  IF ~w.set
             THEN [status |-> "UnboundLocalError", data |-> <<>>]
             ELSE GroupsUid(i + 1, data, w,
                      Append(acc, [key |-> data[i].key, entries |-> data[i].entries,
                                   uid |-> [nparts |-> w.nparts, chunks |-> w.chunks]]))

\* load_datadict_old as a whole: [status, data]; data is the grouped data in
\* key order, each group with its arrays in insertion order and its uid.
load_datadict_old(tree, groups_load, token, reg) ==
    LET bound == DatasetsLoop(1, GroupsLoop(1, <<>>, groups_load, tree),
                              groups_load, tree, token, reg)
    IN  IF bound.status # "ok" THEN bound
        ELSE GroupsUid(1, bound.data, [set |-> FALSE, nparts |-> 0, chunks |-> <<>>], <<>>)

----------------------------------------------------------------------------
(* Inputs of the binder specification                                      *)

\* The largest number of datasets in a file.
MaxDatasets == 3

\* The nodes a file may hold below its root, in the order a walk visits them.
Universe ==
    << [path |-> <<"/", "A">>, isgroup |-> TRUE, parent |-> 0],
       [path |-> <<"/", "A", "/", "B">>, isgroup |-> TRUE, parent |-> 1],
       [path |-> <<"/", "A", "/", "B", "/", "x">>, isgroup |-> FALSE, parent |-> 2],
       [path |-> <<"/", "A", "/", "x">>, isgroup |-> FALSE, parent |-> 1],
       [path |-> <<"/", "A", "/", "y">>, isgroup |-> FALSE, parent |-> 1],
       [path |-> <<"/", "C">>, isgroup |-> TRUE, parent |-> 0],
       [path |-> <<"/", "C", "/", "x">>, isgroup |-> FALSE, parent |-> 6] >>

\* (shape, chunks) of a lazy array as da.from_array returns it.
Layouts ==
    { [shape |-> <<4>>, chunks |-> << <<4>> >>],
      [shape |-> <<4, 3>>, chunks |-> << <<2, 2>>, <<3>> >>],
      [shape |-> <<2, 3>>, chunks |-> << <<2>>, <<3>> >>] }

\* The files: node sets closed under parent, with at most MaxDatasets datasets.
Files ==
    {S \in SUBSET DOMAIN Universe :
        /\ \A n \in S : Universe[n].parent # 0 => Universe[n].parent \in S
        /\ Cardinality({n \in S : ~Universe[n].isgroup}) <= MaxDatasets}

RECURSIVE Pick(_, _)
Pick(S, i) ==
    IF i > Len(Universe) THEN <<>>
    ELSE (IF i \in S THEN <<i>> ELSE <<>>) \o Pick(S, i + 1)

\* walk_hdf5file: the root and the groups, and the datasets with the layout
\* of their arrays, in visiting order.
Walk(S, layout) ==
    LET ns == Pick(S, 1)
        gs == SelectSeq(ns, LAMBDA n : Universe[n].isgroup)
        ds == SelectSeq(ns, LAMBDA n : ~Universe[n].isgroup)
    IN  [groups |-> <<Slash>> \o [i \in DOMAIN gs |-> Universe[gs[i]].path],
         datasets |-> [i \in DOMAIN ds |->
                         [path |-> Universe[ds[i]].path,
                          shape |-> layout[ds[i]].shape,
                          chunks |-> layout[ds[i]].chunks]]]

Trees ==
    UNION { {Walk(S, layout) : layout \in [{n \in S : ~Universe[n].isgroup} -> Layouts]} :
              S \in Files }

\* The canonical-name registry of the file: none; one with the stripped path
\* of /A/x as key; one whose only key is the unstripped path.
Registries ==
    { [present |-> FALSE, attrs |-> <<>>],
      [present |-> TRUE, attrs |-> << [key |-> <<"A", "/", "x">>, value |-> <<"c", "1">>] >>],
      [present |-> TRUE, attrs |-> << [key |-> <<"/", "A", "/", "x">>, value |-> <<"c", "2">>] >>] }

Tokens == { <<>>, <<"t">> }

GroupsLoads ==
    { NoGroupsLoad,
      [given |-> TRUE, names |-> << <<"/", "A">> >>],
      [given |-> TRUE, names |-> << <<"/", "A">>, <<"/", "C">> >>],
      [given |-> TRUE, names |-> << <<"/", "A", "/", "x">> >>] }

NotBound == [status |-> "none", data |-> <<>>]

InitBind ==
    /\ path = <<"/", "f">>
    /\ node = [isdir |-> FALSE, zgroup |-> FALSE]
    /\ listing = <<>>
    /\ chunkq = <<>>
    /\ bindq \in {[tree |-> t, groups_load |-> g, token |-> k, reg |-> r, out |-> NotBound] :
                    t \in Trees, g \in GroupsLoads, k \in Tokens, r \in Registries}
    /\ cachedir = <<>> /\ dsdir = FALSE /\ datafile = "absent"
    /\ pc = <<>> /\ call = <<>> /\ ncalls = 0

\* One call of load_datadict_old on the drawn file.
Bind ==
    /\ bindq.out = NotBound
    /\ bindq' = [bindq EXCEPT !.out =
                    load_datadict_old(bindq.tree, bindq.groups_load, bindq.token, bindq.reg)]
    /\ UNCHANGED <<path, node, listing, chunkq>>
    /\ UNCHANGED loaderVars

NextBind == Bind

SpecBind == InitBind /\ [][NextBind]_vars

----------------------------------------------------------------------------
(* Claims about the binder (checked under SpecBind)                        *)

Bound == bindq.out.status = "ok"

\* The parent group of a dataset path, and the datasets directly in a group.
ParentPath(dpath) ==
    LET parts == Split(dpath, "/")
    IN  SubSeq(dpath, 1, Len(dpath) - Len(Last(parts)) - 1)

DirectDatasets(group) ==
    {bindq.tree.datasets[i].path :
        i \in {j \in DOMAIN bindq.tree.datasets : ParentPath(bindq.tree.datasets[j].path) = group}}

TopLevelGroups ==
    {bindq.tree.groups[i] :
        i \in {j \in DOMAIN bindq.tree.groups : Len(Split(bindq.tree.groups[j], "/")) = 2
                                                  /\ bindq.tree.groups[j] # Slash}}

Keys == {bindq.out.data[i].key : i \in DOMAIN bindq.out.data}

GroupOf(key) == bindq.out.data[CHOOSE i \in DOMAIN bindq.out.data : bindq.out.data[i].key = key]

EntriesOf(rec) == {rec.entries[j] : j \in DOMAIN rec.entries}

\* C5 (the claim as stated): with groups_load omitted, a group without a
\* direct dataset is no key of the grouped data, and a group with a direct
\* dataset is a key whose arrays are exactly its direct datasets.
C5_OnlyDirectDatasets ==
    (Bound /\ ~bindq.groups_load.given) =>
        \A g \in TopLevelGroups :
            LET key == Split(g, "/")[2]
            IN  /\ DirectDatasets(g) = {} => key \notin Keys
                /\ DirectDatasets(g) # {} =>
                      /\ key \in Keys
                      /\ {e.path : e \in EntriesOf(GroupOf(key))} = DirectDatasets(g)

\* The name the claim gives the array of the dataset at dpath: the registry
\* value under the path without its leading "/" when the file has a registry
\* with that key, else "Dataset", the token, and the path with "_" for "/".
RegistryKey(dpath) == SubSeq(dpath, 2, Len(dpath))

Underscored(dpath) ==
    [i \in 1..Len(dpath) |-> IF dpath[i] \in {"/"} THEN "_" ELSE dpath[i]]

ClaimedName(dpath) ==
    LET hits == {i \in DOMAIN bindq.reg.attrs : bindq.reg.attrs[i].key = RegistryKey(dpath)}
    IN  IF bindq.reg.present /\ hits # {}
        THEN bindq.reg.attrs[CHOOSE i \in hits : TRUE].value
        ELSE <<"D", "a", "t", "a", "s", "e", "t">> \o bindq.token \o Underscored(dpath)

\* C6: every bound array carries the registry name of its dataset path
\* (stripped of slashes) when the registry has one, and otherwise
\* "Dataset" + token + the path with "/" replaced by "_".
C6_NameFromTokenPathRegistry ==
    Bound =>
        \A i \in DOMAIN bindq.out.data :
            \A e \in EntriesOf(bindq.out.data[i]) : e.name = ClaimedName(e.path)

\* C6 witness: one load with token "t" bound /A/x under its registry name and
\* /A/y under its derived name.
C6_Witness ==
    /\ Bound
    /\ bindq.token = <<"t">>
    /\ \E i \in DOMAIN bindq.out.data :
          /\ \E e \in EntriesOf(bindq.out.data[i]) :
                e.path = <<"/", "A", "/", "x">> /\ e.name = <<"c", "1">>
          /\ \E e \in EntriesOf(bindq.out.data[i]) :
                /\ e.path = <<"/", "A", "/", "y">>
                /\ e.name = <<"D", "a", "t", "a", "s", "e", "t", "t", "_", "A", "_", "y">>

\* C7 (the claim as stated): the uid of every group has the row count of a
\* dataset of that group and is chunked like a 1-D dataset of the group when
\* there is one, else like the leading axis of the group's first array.
C7_UidFromOwnGroup ==
    Bound =>
        \A i \in DOMAIN bindq.out.data :
            LET rec == bindq.out.data[i]
                oneD == {e \in EntriesOf(rec) : Len(e.shape) = 1}
            IN  /\ rec.entries # <<>>
                /\ rec.uid.nparts \in {e.shape[1] : e \in EntriesOf(rec)}
                /\ IF oneD # {}
                   THEN \E e \in oneD : rec.uid.chunks = e.chunks
                   ELSE rec.uid.chunks = <<rec.entries[1].chunks[1]>>

====
